---------------------------- MODULE Spec2Model ----------------------------
(***************************************************************************)
(* Model of artemis/experiments/experiments.py: the Experiment node and    *)
(* its variant tree, the global experiment library, the capture scope and  *)
(* the run lifecycle.                                                      *)
(*                                                                         *)
(* Strings are sequences of one-character strings, so that names built by  *)
(* concatenation ('e' + '.' + 'x') and names given whole ('e.x') can        *)
(* coincide exactly when they do in Python.  Experiment objects are        *)
(* identified by their position in the sequence nodes (object identity);   *)
(* 0 stands for "no object".                                               *)
(***************************************************************************)
EXTENDS Naturals, Sequences, FiniteSets

(* ------------------------------ bounds -------------------------------- *)

\* Number of Experiment objects ever constructed.
MaxNodes == 3

\* Number of run() calls.
MaxRuns == 1

\* Number of capture_created_experiments scopes entered.
MaxScopes == 1

\* Number of keyword arguments a name is derived from.
MaxKw == 3

(* ------------------------------ inputs -------------------------------- *)

\* Names given to directly constructed experiments.
DeclNames == { <<"e">>, <<"e", ".", "x">> }

\* Explicit variant names (the one positional argument of add_variant).
ExplicitNames == { <<"x">>, <<"a", "=", "1">> }

\* Keyword arguments.  A kwargs dict is the sequence of its items in
\* insertion order: none, a=1, and a=1 with b=2 in both orders.
KwA == [k |-> <<"a">>, v |-> 1]
KwB == [k |-> <<"b">>, v |-> 2]
Kwargs == { <<>>, <<KwA>>, <<KwA, KwB>>, <<KwB, KwA>> }

\* The (*args, **kwargs) of add_variant / add_root_variant / get_variant:
\* kwargs alone, one name alone, one name with kwargs, and two names.
CallInputs ==
    { [args |-> <<>>, kwargs |-> kw] : kw \in Kwargs }
    \cup { [args |-> <<n>>, kwargs |-> <<>>] : n \in ExplicitNames }
    \cup { [args |-> << <<"x">> >>, kwargs |-> <<KwA>>],
           [args |-> << <<"x">>, <<"x">> >>, kwargs |-> <<>>] }

\* The kwargs dicts a name is derived from: up to MaxKw items with distinct
\* keys among a, ab, b, x and values 1, 2, in every insertion order.
NameItems == { [k |-> key, v |-> val] :
                 key \in { <<"a">>, <<"a", "b">>, <<"b">>, <<"x">> }, val \in {1, 2} }
NameKwargs ==
    UNION { { kw \in [1..n -> NameItems] :
                \A i, j \in 1..n : i # j => kw[i].k # kw[j].k } : n \in 0..MaxKw }

\* Three-valued options: None, True, False.
Tri == {"None", "True", "False"}

(* ------------------------------ state --------------------------------- *)

VARIABLES
    nodes,      \* every Experiment object constructed so far
    lib,        \* GLOBAL_EXPERIMENT_LIBRARY: OrderedDict, as items in order
    test_mode,  \* the process-wide flag behind is_test_mode / set_test_mode
    keep_record_by_default,   \* the module global of line 355
    store,      \* the records kept on disk, oldest first
    runs,       \* number of run() calls made
    cap,        \* the capture_created_experiments generator
    registered, \* history: the nodes registered since the scope was entered
    added,      \* history: the add_variant / add_root_variant calls that succeeded
    last        \* the last call made and what it returned or raised

treeVars == <<nodes, lib>>
runVars  == <<test_mode, keep_record_by_default, store, runs>>
capVars  == <<cap, registered>>
vars == <<nodes, lib, test_mode, keep_record_by_default, store, runs, cap,
          registered, added, last>>

(* ---------------------------- strings --------------------------------- *)

\* Rank of a character in Python's string ordering (ASCII).
CharRank(c) ==
    CASE c = "," -> 44
      [] c = "." -> 46
      [] c = "1" -> 49
      [] c = "2" -> 50
      [] c = "=" -> 61
      [] c = "a" -> 97
      [] c = "b" -> 98
      [] c = "e" -> 101
      [] c = "x" -> 120
      [] c = "y" -> 121

\* s < t for Python strings.
RECURSIVE StrLess(_, _)
StrLess(s, t) ==
    IF t = <<>> THEN FALSE
    ELSE IF s = <<>> THEN TRUE
    ELSE IF CharRank(Head(s)) # CharRank(Head(t))
         THEN CharRank(Head(s)) < CharRank(Head(t))
    ELSE StrLess(Tail(s), Tail(t))

\* str(v) for the values used.
Str(v) == IF v = 1 THEN <<"1">> ELSE <<"2">>

\* sep.join(parts)
RECURSIVE Join(_, _)
Join(sep, parts) ==
    IF parts = <<>> THEN <<>>
    ELSE IF Len(parts) = 1 THEN parts[1]
    ELSE parts[1] \o sep \o Join(sep, Tail(parts))

\* sorted(S) for a set of strings.
RECURSIVE Sorted(_)
Sorted(S) ==
    IF S = {} THEN <<>>
    ELSE LET m == CHOOSE x \in S : \A y \in S \ {x} : StrLess(x, y)
         IN  <<m>> \o Sorted(S \ {m})

\* kwargs[argname]
KwGet(kw, argname) == (CHOOSE i \in 1..Len(kw) : kw[i].k = argname)

\* Variant of _kwargs_to_experiment_name: the items are taken in the order
\* the dict holds them.
_kwargs_to_experiment_name_Unsorted(kw) ==
    Join(<<",">>, [ i \in 1..Len(kw) |-> kw[i].k \o <<"=">> \o Str(kw[i].v) ])

_kwargs_to_experiment_name(kw) ==
    LET keys == Sorted({ kw[i].k : i \in 1..Len(kw) })
    IN  Join(<<",">>, [ i \in 1..Len(keys) |->
                          keys[i] \o <<"=">> \o Str(kw[KwGet(kw, keys[i])].v) ])

(* --------------------------- OrderedDict ------------------------------ *)

DictKeys(d) == { d[i].key : i \in 1..Len(d) }
DictHas(d, key) == key \in DictKeys(d)
DictIndex(d, key) == CHOOSE i \in 1..Len(d) : d[i].key = key
DictGet(d, key) == d[DictIndex(d, key)].val
DictValues(d) == [ i \in 1..Len(d) |-> d[i].val ]

\* d[key] = val: an existing key keeps its position, a new key goes last.
DictSet(d, key, val) ==
    IF DictHas(d, key)
    THEN [d EXCEPT ![DictIndex(d, key)] = [key |-> key, val |-> val]]
    ELSE Append(d, [key |-> key, val |-> val])

(* ----------------------------- registry ------------------------------- *)

\* Variant of _register_experiment: a name already in the library keeps the
\* node it has (setdefault).
_register_experiment_KeepFirst(library, node, name) ==
    IF DictHas(library, name) THEN library ELSE DictSet(library, name, node)

_register_experiment(library, node, name) == DictSet(library, name, node)

\* load_experiment: the node, or ExperimentNotFoundError.
load_experiment(library, experiment_id) ==
    IF DictHas(library, experiment_id)
    THEN [raised |-> "none", ret |-> DictGet(library, experiment_id)]
    ELSE [raised |-> "ExperimentNotFoundError", ret |-> 0]

is_experiment_loadable(library, experiment_id) == DictHas(library, experiment_id)

(* ------------------------------- nodes -------------------------------- *)

\* Experiment.__init__, lines 35-42: the fields of a new object.
NewExperiment(name, display_function, is_root) ==
    [ name             |-> name,
      display_function |-> display_function,
      variants         |-> <<>>,
      notes            |-> <<>>,
      is_root          |-> is_root ]

\* Variant of RegisterOnInit: every new object registers itself.
RegisterOnInit_Always(library, node, name, is_root) ==
    _register_experiment(library, node, name)

\* Experiment.__init__, lines 43-44: only a non-root registers itself.
RegisterOnInit(library, node, name, is_root) ==
    IF ~is_root THEN _register_experiment(library, node, name) ELSE library

\* Variant of VariantName: the key is always derived from the kwargs.
VariantName_FromKwargs(args, kwargs) == _kwargs_to_experiment_name(kwargs)

\* _create_experiment_variant, line 157: the key of the new variant.
VariantName(args, kwargs) ==
    IF Len(args) = 1 THEN args[1] ELSE _kwargs_to_experiment_name(kwargs)

\* _create_experiment_variant, lines 156 and 158: the two assertions.
CreateRejected(ns, parent, args, kwargs) ==
    \/ Len(args) \notin {0, 1}
    \/ DictHas(ns[parent].variants, VariantName(args, kwargs))

\* get_variant: the child, or AssertionError.
get_variant(ns, parent, args, kwargs) ==
    IF Len(args) > 1 \/ (Len(args) = 1 /\ Len(kwargs) # 0)
    THEN [raised |-> "AssertionError", ret |-> 0]
    ELSE LET name == IF Len(args) = 0 THEN _kwargs_to_experiment_name(kwargs)
                     ELSE args[1]
         IN  IF DictHas(ns[parent].variants, name)
             THEN [raised |-> "none", ret |-> DictGet(ns[parent].variants, name)]
             ELSE [raised |-> "AssertionError", ret |-> 0]

\* get_all_variants: pre-order walk of the variant tree.
RECURSIVE get_all_variants(_, _, _, _)
RECURSIVE VariantsOfChildren(_, _, _)
VariantsOfChildren(ns, children, include_roots) ==
    IF children = <<>> THEN <<>>
    ELSE get_all_variants(ns, Head(children), include_roots, TRUE)
         \o VariantsOfChildren(ns, Tail(children), include_roots)

\* Variant of get_all_variants: the walk stops at a root node that is left
\* out, so that what lies below it is left out too.
get_all_variants_Pruned(ns, self, include_roots, include_self) ==
    IF ns[self].is_root /\ ~include_roots THEN <<>>
    ELSE (IF include_self THEN <<self>> ELSE <<>>)
         \o VariantsOfChildren(ns, DictValues(ns[self].variants), include_roots)

get_all_variants(ns, self, include_roots, include_self) ==
    (IF include_self /\ (~ns[self].is_root \/ include_roots)
     THEN <<self>> ELSE <<>>)
    \o VariantsOfChildren(ns, DictValues(ns[self].variants), include_roots)

(* ------------------------- capture scope ------------------------------ *)

\* values()[current_len:]
SliceFrom(seq, n) == IF n >= Len(seq) THEN <<>> ELSE SubSeq(seq, n + 1, Len(seq))

\* capture_created_experiments, lines 327-328: what the generator appends to
\* the yielded list when it is resumed after the with-block.
CapturedAtExit(library, current_len) == SliceFrom(DictValues(library), current_len)

\* History kept beside the library: the nodes registered while a scope is open.
NoteRegistered(reg, library, library2, node) ==
    IF cap.state = "open" /\ library2 # library THEN Append(reg, node) ELSE reg

(* ------------------------------ actions ------------------------------- *)

Init ==
    /\ nodes = <<>>
    /\ lib = <<>>
    /\ test_mode = FALSE
    /\ keep_record_by_default = "None"
    /\ store = <<>>
    /\ runs = 0
    /\ cap = [state |-> "none", entered |-> 0, current_len |-> 0,
              new_experiments |-> <<>>]
    /\ registered = <<>>
    /\ added = {}
    /\ last = [op |-> "init"]

\* Experiment(name=..., display_function=..., is_root=...)
Declare(name, display_function, is_root) ==
    /\ Len(nodes) < MaxNodes
    /\ LET id == Len(nodes) + 1 IN
       /\ nodes' = Append(nodes, NewExperiment(name, display_function, is_root))
       /\ lib' = RegisterOnInit(lib, id, name, is_root)
       /\ registered' = NoteRegistered(registered, lib, lib', id)
       /\ last' = [op |-> "declare", raised |-> "none", ret |-> id]
    /\ UNCHANGED <<runVars, cap, added>>

\* Variant of WithVariant: the new node is registered under the key it has in
\* its parent's variant map.
WithVariant_KeyRegistered(ns, library, parent, key, is_root) ==
    LET id   == Len(ns) + 1
        name == ns[parent].name \o <<".">> \o key
        ex   == NewExperiment(name, ns[parent].display_function, is_root)
    IN  [ nodes |-> [Append(ns, ex) EXCEPT ![parent].variants = DictSet(@, key, id)],
          lib   |-> RegisterOnInit(library, id, key, is_root) ]

\* _create_experiment_variant, lines 157-168, once both assertions passed:
\* the objects and the library after the variant stored under key is made.
WithVariant(ns, library, parent, key, is_root) ==
    LET id   == Len(ns) + 1
        name == ns[parent].name \o <<".">> \o key
        ex   == NewExperiment(name, ns[parent].display_function, is_root)
    IN  [ nodes |-> [Append(ns, ex) EXCEPT ![parent].variants = DictSet(@, key, id)],
          lib   |-> RegisterOnInit(library, id, name, is_root) ]

\* Variant of CreateVariant: the Experiment is constructed, and so registered,
\* before the name is looked up in the variant map.
CreateVariant_ConstructFirst(parent, args, kwargs, is_root) ==
    LET op   == IF is_root THEN "add_root_variant" ELSE "add_variant"
        id   == Len(nodes) + 1
        key  == VariantName(args, kwargs)
        made == WithVariant(nodes, lib, parent, key, is_root)
    IN
    /\ Len(nodes) < MaxNodes
    /\ IF Len(args) \notin {0, 1}
       THEN /\ last' = [op |-> op, self |-> parent, args |-> args,
                        kwargs |-> kwargs, raised |-> "AssertionError", ret |-> 0]
            /\ UNCHANGED <<treeVars, runVars, capVars, added>>
       ELSE IF DictHas(nodes[parent].variants, key)
       THEN /\ nodes' = Append(nodes, made.nodes[id])
            /\ lib' = made.lib
            /\ last' = [op |-> op, self |-> parent, args |-> args,
                        kwargs |-> kwargs, raised |-> "AssertionError", ret |-> 0]
            /\ UNCHANGED <<runVars, capVars, added>>
       ELSE /\ nodes' = made.nodes
            /\ lib' = made.lib
            /\ registered' = NoteRegistered(registered, lib, lib', id)
            /\ added' = added \cup {[op |-> op, self |-> parent, args |-> args,
                                      kwargs |-> kwargs, ret |-> id]}
            /\ last' = [op |-> op, self |-> parent, args |-> args,
                        kwargs |-> kwargs, raised |-> "none", ret |-> id]
            /\ UNCHANGED <<runVars, cap>>

\* parent.add_variant(*args, **kwargs) / parent.add_root_variant(...)
CreateVariant(parent, args, kwargs, is_root) ==
    LET op   == IF is_root THEN "add_root_variant" ELSE "add_variant"
        id   == Len(nodes) + 1
        key  == VariantName(args, kwargs)
        made == WithVariant(nodes, lib, parent, key, is_root)
    IN
    /\ Len(nodes) < MaxNodes
    /\ IF CreateRejected(nodes, parent, args, kwargs)
       THEN /\ last' = [op |-> op, self |-> parent, args |-> args,
                        kwargs |-> kwargs, raised |-> "AssertionError", ret |-> 0]
            /\ UNCHANGED <<treeVars, runVars, capVars, added>>
       ELSE /\ nodes' = made.nodes
            /\ lib' = made.lib
            /\ registered' = NoteRegistered(registered, lib, lib', id)
            /\ added' = added \cup {[op |-> op, self |-> parent, args |-> args,
                                      kwargs |-> kwargs, ret |-> id]}
            /\ last' = [op |-> op, self |-> parent, args |-> args,
                        kwargs |-> kwargs, raised |-> "none", ret |-> id]
            /\ UNCHANGED <<runVars, cap>>

add_variant(parent, args, kwargs) == CreateVariant(parent, args, kwargs, FALSE)

add_root_variant(parent, args, kwargs) == CreateVariant(parent, args, kwargs, TRUE)

clear_all_experiments ==
    /\ lib' = <<>>
    /\ last' = [op |-> "clear_all_experiments"]
    /\ UNCHANGED <<nodes, runVars, capVars, added>>

\* with capture_created_experiments() as new_experiments: (entry)
CaptureEnter ==
    /\ cap.state # "open"
    /\ cap.entered < MaxScopes
    /\ cap' = [state |-> "open", entered |-> cap.entered + 1,
               current_len |-> Len(lib), new_experiments |-> <<>>]
    /\ registered' = <<>>
    /\ last' = [op |-> "capture_enter"]
    /\ UNCHANGED <<treeVars, runVars, added>>

\* Leaving the with-block.  When the block raised, the exception is thrown
\* into the generator at its yield and the lines after the yield do not run.
CaptureExit(body_raised) ==
    /\ cap.state = "open"
    /\ cap' = [cap EXCEPT !.state = "closed",
                          !.new_experiments =
                              IF body_raised THEN @
                              ELSE @ \o CapturedAtExit(lib, cap.current_len)]
    /\ last' = [op |-> "capture_exit", body_raised |-> body_raised]
    /\ UNCHANGED <<treeVars, runVars, registered, added>>

\* _kwargs_to_experiment_name(kwargs), called on its own.
NameFromKwargs(kw) ==
    /\ last' = [op |-> "name", kwargs |-> kw, ret |-> _kwargs_to_experiment_name(kw)]
    /\ UNCHANGED <<treeVars, runVars, capVars, added>>

(* ---------------------------- run lifecycle --------------------------- *)

\* What run() does to the world, in order: each effect is one event.
Ev(f, v) == [f |-> f, v |-> v]

\* str(b) for a boolean.
BoolStr(b) == IF b THEN "True" ELSE "False"

\* run, lines 97-98.
ResolveTestMode(tm, flag) == IF tm = "None" THEN flag ELSE tm = "True"

\* run, lines 99-100.
ResolveKeepRecord(kr, override, tm) ==
    IF kr = "None"
    THEN (IF override # "None" THEN override = "True" ELSE ~tm)
    ELSE kr = "True"

\* run, lines 112-128: the try body.  meta is what the metadata capture of
\* lines 114-123 raises, call what self.function() raises ("none": nothing).
TryBody(meta, call) ==
    IF meta # "none"
    THEN [events |-> <<>>, raised |-> meta]
    ELSE [events |-> <<Ev("STATUS", "STARTED"), Ev("call", "function")>>
                     \o (IF call = "none" THEN <<Ev("STATUS", "FINISHED")>>
                         ELSE <<>>),
          raised |-> call]

\* Variant of ExceptClauses: the trace is printed when the failure is
\* re-raised instead of when it is swallowed.
ExceptClauses_PrintWhenRaising(raised, raise_exceptions) ==
    CASE raised = "KeyboardInterrupt" ->
           [events |-> <<Ev("STATUS", "STOPPED"), Ev("trace", "quiet")>>,
            how |-> "raise"]
      [] raised = "Exception" ->
           [events |-> <<Ev("STATUS", "ERROR"),
                         Ev("trace", IF raise_exceptions THEN "printed"
                                     ELSE "quiet")>>,
            how |-> IF raise_exceptions THEN "raise" ELSE "return"]
      [] raised = "SystemExit" -> [events |-> <<>>, how |-> "raise"]
      [] OTHER -> [events |-> <<>>, how |-> "fall"]

\* Variant of ExceptClauses: one clause handles the interruption like any
\* other failure.
ExceptClauses_InterruptAsError(raised, raise_exceptions) ==
    CASE raised \in {"KeyboardInterrupt", "Exception"} ->
           [events |-> <<Ev("STATUS", "ERROR"),
                         Ev("trace", IF ~raise_exceptions THEN "printed"
                                     ELSE "quiet")>>,
            how |-> IF raise_exceptions THEN "raise" ELSE "return"]
      [] raised = "SystemExit" -> [events |-> <<>>, how |-> "raise"]
      [] OTHER -> [events |-> <<>>, how |-> "fall"]

\* run, lines 129-139: the except clauses.  A BaseException that is neither
\* a KeyboardInterrupt nor an Exception matches no clause.
ExceptClauses(raised, raise_exceptions) ==
    CASE raised = "KeyboardInterrupt" ->
           [events |-> <<Ev("STATUS", "STOPPED"), Ev("trace", "quiet")>>,
            how |-> "raise"]
      [] raised = "Exception" ->
           [events |-> <<Ev("STATUS", "ERROR"),
                         Ev("trace", IF ~raise_exceptions THEN "printed"
                                     ELSE "quiet")>>,
            how |-> IF raise_exceptions THEN "raise" ELSE "return"]
      [] raised = "SystemExit" -> [events |-> <<>>, how |-> "raise"]
      [] OTHER -> [events |-> <<>>, how |-> "fall"]

\* Variant of FinallyClause: the runtime is written and the figures are not.
FinallyClause_RuntimeOnly == <<Ev("RUNTIME", "elapsed")>>

\* run, lines 140-144: the finally clause.
FinallyClause == <<Ev("RUNTIME", "elapsed"), Ev("N_FIGS", "len"), Ev("FIGS", "locs")>>

\* run, lines 109-110: record_experiment is entered with use_temp_dir.
WithEnter(keep_record) == <<Ev("scope", IF keep_record THEN "enter_keep" ELSE "enter_temp")>>

\* record_experiment on leaving its scope: a temporary location is cleaned
\* up, a persistent one is finalized.
ScopeExitEffect(use_temp_dir) == IF use_temp_dir THEN "cleanup" ELSE "finalize"

\* Variant of WithExit: the scope is left only when the block does not raise.
WithExit_OnlyOnReturn(how, keep_record) ==
    IF how = "raise" THEN <<>> ELSE <<Ev("scope", ScopeExitEffect(~keep_record))>>

\* run, line 110: the with statement leaves the scope however the block ends.
WithExit(how, keep_record) == <<Ev("scope", ScopeExitEffect(~keep_record))>>

\* Variant of AfterScope: display_results alone decides whether the display
\* function is called.
AfterScope_DisplayUnchecked(self_notes, display_function, display_results, old_test_mode) ==
    <<Ev("save_result", "results")>>
    \o [i \in 1..Len(self_notes) |-> Ev("add_note", self_notes[i])]
    \o (IF display_results THEN <<Ev("display", "results")>> ELSE <<>>)
    \o <<Ev("set_test_mode", BoolStr(old_test_mode))>>

\* run, lines 146-152: the code after the with-block.
AfterScope(self_notes, display_function, display_results, old_test_mode) ==
    <<Ev("save_result", "results")>>
    \o [i \in 1..Len(self_notes) |-> Ev("add_note", self_notes[i])]
    \o (IF display_results /\ display_function THEN <<Ev("display", "results")>>
        ELSE <<>>)
    \o <<Ev("set_test_mode", BoolStr(old_test_mode))>>

\* run, line 153 and line 139: the value run returns.
ReturnValue(keep_record) == "exp_rec"

\* Experiment.run, lines 97-153.
RunResult(self, flag, override, tm, kr, raise_exceptions, display_results, meta, call) ==
    LET test   == ResolveTestMode(tm, flag)
        keep   == ResolveKeepRecord(kr, override, test)
        body   == TryBody(meta, call)
        handle == ExceptClauses(body.raised, raise_exceptions)
        inside == body.events \o handle.events \o FinallyClause
        after  == IF handle.how = "fall"
                  THEN AfterScope(self.notes, self.display_function,
                                  display_results, flag)
                  ELSE <<>>
    IN  [ events |-> <<Ev("set_test_mode", BoolStr(test))>> \o WithEnter(keep)
                     \o inside \o WithExit(handle.how, keep) \o after,
          how    |-> IF handle.how = "fall" THEN "return" ELSE handle.how,
          value  |-> IF handle.how = "raise" THEN body.raised
                     ELSE ReturnValue(keep),
          test_mode |-> test, keep_record |-> keep ]

\* The events of one kind, in order.
Only(events, f) == SelectSeq(events, LAMBDA e : e.f = f)
Values(events) == [i \in 1..Len(events) |-> events[i].v]
LastOr(seq, default) == IF seq = <<>> THEN default ELSE seq[Len(seq)]

\* The process-wide flag once the events have happened.
FlagAfter(events, flag) ==
    LastOr(Values(Only(events, "set_test_mode")), BoolStr(flag)) = "True"

\* The record the events leave behind.
RecordOf(name, events) ==
    [ name   |-> name,
      status |-> LastOr(Values(Only(events, "STATUS")), "NONE"),
      trace  |-> LastOr(Values(Only(events, "trace")), "none"),
      notes  |-> Values(Only(events, "add_note")),
      result |-> Only(events, "save_result") # <<>> ]

\* A record is kept on disk when its scope was entered without use_temp_dir.
Kept(events) == Ev("scope", "enter_keep") \in { events[i] : i \in 1..Len(events) }

Faults == {"none", "Exception", "KeyboardInterrupt"}
CallFaults == Faults \cup {"SystemExit"}

\* The notes an experiment may carry when it is run.
NoteSeqs == { <<>>, <<"n1">>, <<"n2", "n1">> }

\* node.run(test_mode=tm, keep_record=kr, raise_exceptions=..., display_results=...)
Run(n, tm, kr, raise_exceptions, display_results, meta, call) ==
    /\ runs < MaxRuns
    /\ LET r == RunResult(nodes[n], test_mode, keep_record_by_default, tm, kr,
                          raise_exceptions, display_results, meta, call)
       IN  /\ test_mode' = FlagAfter(r.events, test_mode)
           /\ store' = IF Kept(r.events)
                       THEN Append(store, RecordOf(nodes[n].name, r.events))
                       ELSE store
           /\ last' = [op |-> "run", self |-> n,
                       old_test_mode |-> test_mode,
                       test_mode |-> r.test_mode, keep_record |-> r.keep_record,
                       raise_exceptions |-> raise_exceptions,
                       display_results |-> display_results,
                       meta |-> meta, call |-> call,
                       events |-> r.events, how |-> r.how, value |-> r.value]
    /\ runs' = runs + 1
    /\ UNCHANGED <<treeVars, keep_record_by_default, capVars, added>>

\* artemis.general.test_mode.set_test_mode(state), called by the program.
set_test_mode(state) ==
    /\ test_mode' = state
    /\ last' = [op |-> "set_test_mode"]
    /\ UNCHANGED <<treeVars, keep_record_by_default, store, runs, capVars, added>>

\* experiments.keep_record_by_default = value
SetKeepRecordByDefault(value) ==
    /\ keep_record_by_default' = value
    /\ last' = [op |-> "set_keep_record_by_default"]
    /\ UNCHANGED <<treeVars, test_mode, store, runs, capVars, added>>

(* --------------------------- record queries --------------------------- *)

\* A record object is identified by its position in store; 0 is None.

\* experiment_id_to_record_ids(name) with load_experiment_record: the records
\* stored under an experiment name, oldest first.
RecordIdsOf(st, name) ==
    SelectSeq([i \in 1..Len(st) |-> i], LAMBDA i : st[i].name = name)

\* Variant of get_records: only_completed drops the records still marked as
\* started and keeps every other one.
get_records_NotStarted(st, name, only_completed) ==
    IF only_completed
    THEN SelectSeq(RecordIdsOf(st, name), LAMBDA i : st[i].status # "STARTED")
    ELSE RecordIdsOf(st, name)

\* Experiment.get_records(only_completed), lines 223-227.
get_records(st, name, only_completed) ==
    IF only_completed
    THEN SelectSeq(RecordIdsOf(st, name), LAMBDA i : st[i].status = "FINISHED")
    ELSE RecordIdsOf(st, name)

\* record.is_valid(): the arguments captured in the record match those of the
\* experiment now.  The function of a node is never rebound after
\* construction.
is_valid(st, i) == TRUE

\* Experiment.has_record(completed, valid), lines 237-247.
has_record(st, name, completed, valid) ==
    LET records == get_records(st, name, completed)
        checked == IF valid THEN SelectSeq(records, LAMBDA i : is_valid(st, i))
                   ELSE records
    IN  Len(checked) > 0

\* Experiment.get_latest_record(only_completed, err_if_none), lines 266-280.
get_latest_record(st, name, only_completed, err_if_none) ==
    LET records == get_records(st, name, only_completed) IN
    IF Len(records) = 0
    THEN (IF err_if_none THEN [raised |-> "Exception", ret |-> 0]
          ELSE [raised |-> "none", ret |-> 0])
    ELSE [raised |-> "none", ret |-> records[Len(records)]]

\* OrderedDict(pairs): the pairs are set one after the other.
RECURSIVE OrderedDictOf(_)
OrderedDictOf(pairs) ==
    IF pairs = <<>> THEN <<>>
    ELSE LET n == Len(pairs) IN
         DictSet(OrderedDictOf(SubSeq(pairs, 1, n - 1)), pairs[n].key, pairs[n].val)

\* [record for records in lists for record in records]
RECURSIVE Flatten(_)
Flatten(lists) ==
    IF lists = <<>> THEN <<>> ELSE Head(lists) \o Flatten(Tail(lists))

\* Experiment.get_variant_records(only_completed, only_last, flat), lines 282-302.
get_variant_records(ns, st, self, only_completed, only_last, flat) ==
    LET variants == get_all_variants(ns, self, FALSE, TRUE) IN
    IF only_last
    THEN LET exp_record_dict ==
                 OrderedDictOf([i \in 1..Len(variants) |->
                     [key |-> ns[variants[i]].name,
                      val |-> get_latest_record(st, ns[variants[i]].name,
                                                only_completed, FALSE).ret]])
         IN  IF flat
             THEN SelectSeq(DictValues(exp_record_dict), LAMBDA r : r # 0)
             ELSE exp_record_dict
    ELSE LET exp_record_dict ==
                 OrderedDictOf([i \in 1..Len(variants) |->
                     [key |-> ns[variants[i]].name,
                      val |-> get_records(st, ns[variants[i]].name, only_completed)]])
         IN  IF flat
             THEN Flatten(DictValues(exp_record_dict))
             ELSE exp_record_dict

(* --------------------------- specifications --------------------------- *)

\* The variant tree and the registry.
Next ==
    \/ \E name \in DeclNames, r \in BOOLEAN : Declare(name, FALSE, r)
    \/ \E p \in 1..Len(nodes), c \in CallInputs : add_variant(p, c.args, c.kwargs)
    \/ \E p \in 1..Len(nodes), c \in CallInputs : add_root_variant(p, c.args, c.kwargs)
    \/ clear_all_experiments

Spec == Init /\ [][Next]_vars

\* The registry under a capture scope.
NextCapture ==
    \/ \E name \in DeclNames, r \in BOOLEAN : Declare(name, FALSE, r)
    \/ \E p \in 1..Len(nodes) : add_variant(p, << <<"x">> >>, <<>>)
    \/ clear_all_experiments
    \/ CaptureEnter
    \/ \E b \in BOOLEAN : CaptureExit(b)

SpecCapture == Init /\ [][NextCapture]_vars

\* The run lifecycle: one declared experiment, with or without a display
\* function and notes, is run under every combination of options.
InitRun ==
    /\ \E d \in BOOLEAN, notes \in NoteSeqs :
          nodes = << [NewExperiment(<<"e">>, d, FALSE) EXCEPT !.notes = notes] >>
    /\ lib = RegisterOnInit(<<>>, 1, <<"e">>, FALSE)
    /\ test_mode = FALSE
    /\ keep_record_by_default = "None"
    /\ store = <<>>
    /\ runs = 0
    /\ cap = [state |-> "none", entered |-> 0, current_len |-> 0,
              new_experiments |-> <<>>]
    /\ registered = <<>>
    /\ added = {}
    /\ last = [op |-> "init"]

NextRun ==
    \/ \E b \in BOOLEAN : set_test_mode(b)
    \/ \E v \in Tri : SetKeepRecordByDefault(v)
    \/ \E n \in 1..Len(nodes), tm \in Tri, kr \in Tri, re \in BOOLEAN,
          dr \in BOOLEAN, meta \in Faults, call \in CallFaults :
          (meta = "none" \/ call = "none")
          /\ Run(n, tm, kr, re, dr, meta, call)

SpecRun == InitRun /\ [][NextRun]_vars

\* The records of a variant tree: an experiment 'e' with up to three
\* variants below it, each named x, y or 'x.y' and added under any node that
\* has no variant of that name yet; its nodes are then run.
RecordKeys == { <<"x">>, <<"y">>, <<"x", ".", "y">> }

\* The trees one more add_variant call makes out of the trees in T.
GrowTrees(T) ==
    T \cup UNION { UNION { { WithVariant(t.nodes, t.lib, p, key, FALSE) :
                                key \in { k \in RecordKeys :
                                            ~DictHas(t.nodes[p].variants, k) } } :
                              p \in 1..Len(t.nodes) } :
                   t \in T }

RecordTrees ==
    GrowTrees(GrowTrees(GrowTrees(
        { [ nodes |-> << NewExperiment(<<"e">>, FALSE, FALSE) >>,
            lib   |-> RegisterOnInit(<<>>, 1, <<"e">>, FALSE) ] })))

InitRecords ==
    /\ \E t \in RecordTrees : nodes = t.nodes /\ lib = t.lib
    /\ test_mode = FALSE
    /\ keep_record_by_default = "None"
    /\ store = <<>>
    /\ runs = 0
    /\ cap = [state |-> "none", entered |-> 0, current_len |-> 0,
              new_experiments |-> <<>>]
    /\ registered = <<>>
    /\ added = {}
    /\ last = [op |-> "init"]

NextRecords ==
    \E n \in 1..Len(nodes), kr \in {"True", "False"}, re \in BOOLEAN,
       call \in CallFaults :
       Run(n, "None", kr, re, FALSE, "none", call)

SpecRecords == InitRecords /\ [][NextRecords]_vars

\* The name derived from keyword arguments, for every dict of NameKwargs.
NextNames == \E kw \in NameKwargs : NameFromKwargs(kw)

SpecNames == Init /\ [][NextNames]_vars

\* The tree, the registry and runs together: experiments are declared, get
\* a variant x (by a call with one name, or a call with two) or a root
\* variant x, are run with their record kept, and the registry is cleared.
NameArgs == { << <<"x">> >>, << <<"x">>, <<"x">> >> }

NextAll ==
    \/ \E name \in DeclNames, r \in BOOLEAN : Declare(name, FALSE, r)
    \/ \E p \in 1..Len(nodes), args \in NameArgs : add_variant(p, args, <<>>)
    \/ \E p \in 1..Len(nodes) : add_root_variant(p, << <<"x">> >>, <<>>)
    \/ clear_all_experiments
    \/ \E n \in 1..Len(nodes), call \in {"none", "Exception"} :
          Run(n, "None", "True", FALSE, FALSE, "none", call)

SpecAll == Init /\ [][NextAll]_vars

(* ------------------------------ properties ---------------------------- *)

IsRun == last.op = "run"

\* What the try block of the last run raised.
Raised == IF last.meta # "none" THEN last.meta ELSE last.call

\* The values written to the status field by the last run, in order.
StatusWrites == Values(Only(last.events, "STATUS"))

\* The error traces written by the last run.
TraceWrites == Values(Only(last.events, "trace"))

\* The record of the last run.
LastRecord == RecordOf(nodes[last.self].name, last.events)

Terminal == {"FINISHED", "STOPPED", "ERROR"}

\* Position of the first event equal to e (0: none).
IndexOf(events, e) ==
    IF \E i \in 1..Len(events) : events[i] = e
    THEN CHOOSE i \in 1..Len(events) :
            events[i] = e /\ \A j \in 1..(i - 1) : events[j] # e
    ELSE 0

\* C1: after every call of run, on every exit path, the process-wide
\* test-mode flag equals its value immediately before the call.
C1_TestModeRestored == IsRun => test_mode = last.old_test_mode

C3_Interruption ==
    (IsRun /\ Raised = "KeyboardInterrupt") =>
        /\ LastOr(StatusWrites, "NONE") = "STOPPED"
        /\ TraceWrites = <<"quiet">>
        /\ last.how = "raise"
        /\ last.value = "KeyboardInterrupt"

\* The callable was interrupted in a run with raise_exceptions false, and the
\* interruption reached the caller.
C3_Witness ==
    /\ IsRun
    /\ last.call = "KeyboardInterrupt"
    /\ ~last.raise_exceptions
    /\ last.how = "raise"
    /\ LastRecord.status = "STOPPED"

\* C4: in every run the values written to the status field are STARTED
\* followed by exactly one of FINISHED, STOPPED, ERROR, also when the failure
\* or interruption happens during metadata capture.
C4_StatusSequence ==
    IsRun => StatusWrites \in { <<"STARTED", t>> : t \in Terminal }

\* C5: the record scope opened by run is left on every exit path of run, its
\* location finalized when the record is kept and cleaned up when it is not,
\* after everything the with-block writes.
C5_ScopeClosed ==
    IsRun =>
        /\ Values(Only(last.events, "scope")) =
              (IF last.keep_record THEN <<"enter_keep", "finalize">>
               ELSE <<"enter_temp", "cleanup">>)
        /\ \A i \in 1..Len(last.events) :
              last.events[i].f \in {"STATUS", "call", "trace", "RUNTIME", "N_FIGS", "FIGS"}
              => /\ i > IndexOf(last.events, Ev("scope", IF last.keep_record
                                                         THEN "enter_keep"
                                                         ELSE "enter_temp"))
                 /\ i < IndexOf(last.events, Ev("scope", IF last.keep_record
                                                         THEN "finalize"
                                                         ELSE "cleanup"))

\* An interrupted run of a record that is not kept: the interruption
\* propagated and the temporary location was cleaned up.
C5_Witness ==
    /\ IsRun
    /\ last.how = "raise"
    /\ last.value = "KeyboardInterrupt"
    /\ ~last.keep_record
    /\ IndexOf(last.events, Ev("scope", "cleanup")) > 0

\* C6: every run record carries all of the node's notes, in order, whatever
\* the terminal status of the run.
C6_NotesOnEveryRecord ==
    (IsRun /\ LastRecord.status \in Terminal) =>
        LastRecord.notes = nodes[last.self].notes

\* C7: run returns the record when keep_record resolves to true and None when
\* it resolves to false.
C7_ReturnValue ==
    (IsRun /\ last.how = "return") =>
        last.value = (IF last.keep_record THEN "exp_rec" ELSE "None")

\* The variants of node p that are roots: the nodes add_root_variant made.
RootVariants(p) ==
    { n \in 1..Len(nodes) :
        /\ nodes[n].is_root
        /\ \E i \in 1..Len(nodes[p].variants) : nodes[p].variants[i].val = n }

SeqToSet(seq) == { seq[i] : i \in 1..Len(seq) }

\* Every name some node or registry entry has.
KnownNames == DictKeys(lib) \cup { nodes[i].name : i \in 1..Len(nodes) }

\* C8: a node created by add_root_variant is never what load_experiment
\* returns, for any name; it is among get_all_variants(include_roots=True) of
\* its parent; and a non-root child added under a root variant is registered:
\* load_experiment of its name returns it.
C8_RootVariants ==
    /\ \A p \in 1..Len(nodes) : \A n \in RootVariants(p) :
          /\ \A name \in KnownNames : load_experiment(lib, name).ret # n
          /\ n \in SeqToSet(get_all_variants(nodes, p, TRUE, FALSE))
    /\ (last.op = "add_variant" /\ last.raised = "none"
            /\ nodes[last.self].is_root)
         => load_experiment(lib, nodes[last.ret].name) =
               [raised |-> "none", ret |-> last.ret]

\* A root variant exists under a registered parent, and add_variant has just
\* added a child under that root variant.
C8_Witness ==
    /\ last.op = "add_variant"
    /\ last.raised = "none"
    /\ \E p \in 1..Len(nodes) :
          /\ ~nodes[p].is_root
          /\ last.self \in RootVariants(p)

\* Two kwargs dicts with the same keys and values.
SameDict(kw1, kw2) == SeqToSet(kw1) = SeqToSet(kw2)

AddOps == {"add_variant", "add_root_variant"}

\* get_variant finds what a successful add returned: by the explicit name when
\* one was given, by the same kwargs (in any insertion order) otherwise.
AddedIsFound ==
    \A h \in added :
        IF Len(h.args) = 1
        THEN get_variant(nodes, h.self, h.args, <<>>) =
                [raised |-> "none", ret |-> h.ret]
        ELSE \A kw \in Kwargs :
                SameDict(kw, h.kwargs) =>
                    get_variant(nodes, h.self, <<>>, kw) =
                        [raised |-> "none", ret |-> h.ret]

\* An add whose name resolves to a key already in the variant map fails and
\* creates no node.
DuplicateIsRejected ==
    (/\ last'.op \in AddOps
     /\ Len(last'.args) \in {0, 1}
     /\ DictHas(nodes[last'.self].variants,
                IF Len(last'.args) = 1 THEN last'.args[1]
                ELSE _kwargs_to_experiment_name(last'.kwargs)))
    => (last'.raised = "AssertionError" /\ last'.ret = 0 /\ nodes' = nodes)

\* C9: after add_variant succeeds, get_variant on the same node with the same
\* explicit name, or with the same kwargs when the variant was auto-named,
\* returns the node add_variant returned; an add_variant / add_root_variant
\* whose name resolves to a string already in the variant map fails and
\* creates no node.
C9_AddThenGet == [](AddedIsFound) /\ [][DuplicateIsRejected]_vars

\* A variant auto-named from a=1, b=2 exists and get_variant finds it by
\* b=2, a=1; an add with the kwargs in that other order has just been rejected.
C9_Witness ==
    /\ last.op \in AddOps
    /\ last.raised = "AssertionError"
    /\ last.args = <<>>
    /\ last.kwargs = <<KwB, KwA>>
    /\ \E h \in added :
          /\ h.self = last.self
          /\ h.args = <<>>
          /\ h.kwargs = <<KwA, KwB>>
          /\ get_variant(nodes, h.self, <<>>, <<KwB, KwA>>).ret = h.ret

\* C10: at scope exit the yielded sequence holds exactly the nodes registered
\* after scope entry and before scope exit, also when a name is re-used or the
\* registry is cleared inside the scope.
C10_CaptureExact ==
    (last.op = "capture_exit" /\ ~last.body_raised) =>
        cap.new_experiments = registered

\* C11: get_variant_records(only_last=True, flat=True) never contains a None
\* entry, and get_variant_records(only_last=True, flat=False) has exactly one
\* entry per node of get_all_variants(include_self=True), in that order, also
\* when two nodes of the subtree have the same full name.
C11_OneEntryPerVariant ==
    \A n \in 1..Len(nodes), oc \in BOOLEAN :
        LET variants == get_all_variants(nodes, n, FALSE, TRUE)
            d        == get_variant_records(nodes, store, n, oc, TRUE, FALSE)
        IN  /\ 0 \notin SeqToSet(get_variant_records(nodes, store, n, oc, TRUE, TRUE))
            /\ Len(d) = Len(variants)
            /\ \A i \in 1..Len(d) :
                  /\ d[i].key = nodes[variants[i]].name
                  /\ d[i].val = get_latest_record(store, d[i].key, oc, FALSE).ret

\* C12: no two distinct non-root nodes have the same name, and every
\* variant's name is its parent's name, a dot, and the key it is stored under
\* in the parent's variant map.
C12_UniqueNames ==
    /\ \A i, j \in 1..Len(nodes) :
          (i # j /\ ~nodes[i].is_root /\ ~nodes[j].is_root)
              => nodes[i].name # nodes[j].name
    /\ \A p \in 1..Len(nodes) : \A i \in 1..Len(nodes[p].variants) :
          nodes[nodes[p].variants[i].val].name =
              nodes[p].name \o <<".">> \o nodes[p].variants[i].key

\* The nodes of the subtree below and including n.
RECURSIVE DescOrSelf(_)
DescOrSelf(n) ==
    {n} \cup UNION { DescOrSelf(nodes[n].variants[i].val) :
                       i \in 1..Len(nodes[n].variants) }

\* a comes before b in the pre-order of the tree: a is an ancestor of b, or
\* they lie below two children of one node and a's is the earlier child.
Before(a, b) ==
    /\ a # b
    /\ \/ b \in DescOrSelf(a)
       \/ \E c \in 1..Len(nodes) : \E i, j \in 1..Len(nodes[c].variants) :
             /\ i < j
             /\ a \in DescOrSelf(nodes[c].variants[i].val)
             /\ b \in DescOrSelf(nodes[c].variants[j].val)

\* C13: get_all_variants returns the subtree in pre-order; the starting node
\* is included iff include_self and (it is not a root or include_roots), a
\* proper descendant iff it is not a root or include_roots, and the
\* descendants of an excluded root are visited and included by the same rule.
C13_PreOrder ==
    \A n \in 1..Len(nodes), include_roots \in BOOLEAN, include_self \in BOOLEAN :
        LET r == get_all_variants(nodes, n, include_roots, include_self)
            expected == { m \in DescOrSelf(n) :
                            /\ m = n => include_self
                            /\ ~nodes[m].is_root \/ include_roots }
        IN  /\ SeqToSet(r) = expected
            /\ Len(r) = Cardinality(expected)
            /\ \A i, j \in 1..Len(r) : i < j => Before(r[i], r[j])

\* A root variant that the walk leaves out has a child that the walk returns.
C13_Witness ==
    \E p \in 1..Len(nodes) : \E n \in RootVariants(p) :
        \E c \in DescOrSelf(n) \ {n} :
            LET r == SeqToSet(get_all_variants(nodes, p, FALSE, FALSE))
            IN  n \notin r /\ c \in r

NotFound == [raised |-> "ExperimentNotFoundError", ret |-> 0]

\* The names a lookup may be made with.
LookupNames == KnownNames \cup DeclNames

\* One step of the registry's history, seen through load_experiment: a clear
\* forgets every name, the construction of a non-root node makes its name
\* load that node, and every other name loads what it loaded before.
RegistryStep ==
    LET made == Len(nodes') > Len(nodes)
        id   == Len(nodes')
    IN  \A name \in LookupNames \cup DictKeys(lib') :
            load_experiment(lib', name) =
                IF last'.op = "clear_all_experiments" THEN NotFound
                ELSE IF made /\ ~nodes'[id].is_root /\ nodes'[id].name = name
                     THEN [raised |-> "none", ret |-> id]
                     ELSE load_experiment(lib, name)

\* is_experiment_loadable is true exactly when load_experiment succeeds.
LoadableIffLoads ==
    \A name \in LookupNames :
        is_experiment_loadable(lib, name) <=>
            load_experiment(lib, name).raised = "none"

\* C14: registration is an unconditional upsert: load_experiment(name)
\* returns the node most recently registered under the name since the last
\* clear_all_experiments and raises ExperimentNotFoundError iff there is none;
\* is_experiment_loadable(name) is true exactly when load_experiment succeeds.
C14_Upsert ==
    /\ \A name \in DeclNames : load_experiment(lib, name) = NotFound
    /\ [](LoadableIffLoads)
    /\ [][RegistryStep]_vars

\* A second experiment has just been declared under a name that an earlier
\* one is registered under, and the name now loads the second.
C14_Witness ==
    /\ last.op = "declare"
    /\ \E i \in 1..(last.ret - 1) :
          /\ nodes[i].name = nodes[last.ret].name
          /\ ~nodes[i].is_root
          /\ ~nodes[last.ret].is_root
    /\ load_experiment(lib, nodes[last.ret].name).ret = last.ret

\* The permutations of 1..n.
Perms(n) == { p \in [1..n -> 1..n] : \A i, j \in 1..n : i # j => p[i] # p[j] }

\* name lists the items of kw as 'k=v', comma-separated, keys ascending.
IsSortedListing(name, kw) ==
    \E p \in Perms(Len(kw)) :
        /\ \A i \in 1..(Len(kw) - 1) : StrLess(kw[p[i]].k, kw[p[i + 1]].k)
        /\ name = Join(<<",">>, [ i \in 1..Len(kw) |->
                                    kw[p[i]].k \o <<"=">> \o Str(kw[p[i]].v) ])

Positions(fs) == { i \in 1..Len(last.events) : last.events[i].f \in fs }

\* Position of the event that leaves the record scope (0: none).
ScopeExitAt ==
    LET at == { i \in Positions({"scope"}) :
                  last.events[i].v \in {"finalize", "cleanup"} }
    IN  IF at = {} THEN 0 ELSE CHOOSE i \in at : TRUE

\* C16: on every exit from the try block of run (the callable succeeded,
\* raised or was interrupted, or metadata capture failed before the callable
\* was invoked) the elapsed runtime, the figure count and the figure locations
\* are written to the record, after everything the try block and its handlers
\* write and before run returns or propagates.
C16_BookkeepingAlways ==
    IsRun =>
        /\ [i \in 1..3 |-> Only(last.events, <<"RUNTIME", "N_FIGS", "FIGS">>[i])] =
              <<<<Ev("RUNTIME", "elapsed")>>, <<Ev("N_FIGS", "len")>>,
                <<Ev("FIGS", "locs")>>>>
        /\ \A i \in Positions({"RUNTIME", "N_FIGS", "FIGS"}) :
              /\ \A j \in Positions({"STATUS", "call", "trace"}) : j < i
              /\ i < ScopeExitAt

\* Metadata capture was interrupted before the callable was invoked, and the
\* runtime and the figures were still written.
C16_Witness ==
    /\ IsRun
    /\ last.meta = "KeyboardInterrupt"
    /\ last.how = "raise"
    /\ Positions({"call"}) = {}
    /\ Positions({"RUNTIME"}) # {}
    /\ Positions({"FIGS"}) # {}

\* The last run ended with status FINISHED.
Finished == LastOr(StatusWrites, "NONE") = "FINISHED"

\* C17: the result is saved and the display function is called only in runs
\* whose status is FINISHED, and only after the record scope has been left; a
\* run that ends ERROR or STOPPED calls neither; the display function is
\* called iff the run finished, display_results is true and the node has a
\* display function.
C17_SaveAndDisplay ==
    IsRun =>
        /\ Positions({"save_result", "display"}) # {} => Finished
        /\ \A i \in Positions({"save_result", "display"}) :
              ScopeExitAt > 0 /\ i > ScopeExitAt
        /\ LastOr(StatusWrites, "NONE") \in {"ERROR", "STOPPED"} =>
              Positions({"save_result", "display"}) = {}
        /\ Positions({"display"}) # {} <=>
              (Finished /\ last.display_results
               /\ nodes[last.self].display_function)

\* A finished run of a node with a display function and display_results true:
\* the result was saved and then displayed, both after the scope was left.
C17_Witness ==
    /\ IsRun
    /\ Finished
    /\ last.display_results
    /\ nodes[last.self].display_function
    /\ \E i \in Positions({"save_result"}) : \E j \in Positions({"display"}) :
          ScopeExitAt < i /\ i < j

\* has_record(completed=True, valid=False) of a name is true iff some stored
\* record of that name has status FINISHED.
CompletedIffFinished ==
    \A n \in 1..Len(nodes) :
        has_record(store, nodes[n].name, TRUE, FALSE) <=>
            \E i \in 1..Len(store) :
                store[i].name = nodes[n].name /\ store[i].status = "FINISHED"

\* What one step does to has_record: a kept run of a node makes
\* has_record(completed=False, valid=False) true for the node's name, and
\* has_record(completed=True, valid=False) too iff the callable returned;
\* nothing else changes either answer.
HasRecordStep ==
    \A n \in 1..Len(nodes) :
        LET name   == nodes[n].name
            mine   == /\ runs' = runs + 1
                      /\ last'.keep_record
                      /\ nodes[last'.self].name = name
            worked == last'.meta = "none" /\ last'.call = "none"
        IN  /\ has_record(store', name, TRUE, FALSE) <=>
                  (has_record(store, name, TRUE, FALSE) \/ (mine /\ worked))
            /\ has_record(store', name, FALSE, FALSE) <=>
                  (has_record(store, name, FALSE, FALSE) \/ mine)

RejectedChangesNothing ==
    (/\ last'.op \in AddOps
     /\ \/ last'.raised = "AssertionError"
        \/ Len(last'.args) > 1
        \/ DictHas(nodes[last'.self].variants,
                   IF Len(last'.args) = 1 THEN last'.args[1]
                   ELSE _kwargs_to_experiment_name(last'.kwargs)))
    => /\ last'.raised = "AssertionError"
       /\ nodes' = nodes
       /\ lib' = lib
       /\ registered' = registered

\* C19: a rejected add_variant / add_root_variant call (more than one
\* positional argument, or a name already in the parent's variant map) changes
\* nothing: the parent's variant map and the registry are the same before and
\* after the call, and no new node becomes registered.
C19_RejectedAdd == [][RejectedChangesNothing]_vars

\* A call with two positional arguments has just been rejected on a node that
\* has a variant, with a non-empty registry.
C19_Witness ==
    /\ last.op \in AddOps
    /\ last.raised = "AssertionError"
    /\ Len(last.args) = 2
    /\ nodes[last.self].variants # <<>>
    /\ lib # <<>>

\* Each registry entry maps its key to a node that has that name and is not
\* a root.
RegistryWellFormed ==
    \A i \in 1..Len(lib) :
        /\ lib[i].val \in 1..Len(nodes)
        /\ nodes[lib[i].val].name = lib[i].key
        /\ ~nodes[lib[i].val].is_root

\* The variant maps of the nodes that exist are the same after the step.
VariantMapsKept ==
    \A i \in 1..Len(nodes) : nodes'[i].variants = nodes[i].variants

\* Only clear_all_experiments removes a key; only the construction of a node
\* and clear_all_experiments change the registry; only the construction of a
\* variant changes a variant map; run changes neither.
RegistryFrame ==
    /\ last'.op # "clear_all_experiments" => DictKeys(lib) \subseteq DictKeys(lib')
    /\ lib' # lib =>
          \/ last'.op = "clear_all_experiments"
          \/ Len(nodes') = Len(nodes) + 1 /\ last'.op \in AddOps \cup {"declare"}
    /\ ~VariantMapsKept =>
          Len(nodes') = Len(nodes) + 1 /\ last'.op \in AddOps
    /\ (runs' # runs \/ last'.op = "run") => (lib' = lib /\ nodes' = nodes)

\* C20: each registry entry maps a key to a node whose name is the key and
\* whose is_root flag is false; the key set only grows except through
\* clear_all_experiments; nothing but node construction and
\* clear_all_experiments, and in particular not run, changes the registry or a
\* variant map.
C20_RegistryInvariant == [](RegistryWellFormed) /\ [][RegistryFrame]_vars

\* A node has just been run while the registry holds two entries, one of them
\* a variant, and some root node is left out of it.
C20_Witness ==
    /\ IsRun
    /\ Len(lib) >= 2
    /\ \E p \in 1..Len(nodes) : nodes[p].variants # <<>>
    /\ \E n \in 1..Len(nodes) : nodes[n].is_root

=============================================================================
